---------------------------- MODULE Spec2Model ----------------------------
(***************************************************************************)
(* Personal Dictionary (15_g570.py): the word store, its JSON file, the    *)
(* progress log file and the display state of DictionaryApp, with one      *)
(* action per user intent (event handler).                                 *)
(*                                                                         *)
(* A word is a sequence of one-character strings, so that strip(), lower() *)
(* the substring test and sorted() are computed and not assumed.  A day is *)
(* a number: ISO dates "YYYY-MM-DD" sort as the days they name.            *)
(***************************************************************************)
EXTENDS Integers, Sequences, FiniteSets, TLC

VARIABLES
    word_data,      \* self.word_data: dict word -> explanation
    data_file,      \* data/word_data.json: [exists, doc]
    progress_file,  \* data/progress_log.json: [exists, doc]
    today,          \* the day datetime.now() falls on
    dark_mode,      \* self.dark_mode
    search_text,    \* self.search_box.text()
    word_list,      \* items of self.word_list, in display order
    current,        \* row of self.word_list.currentItem(), 0 when there is none
    text_browser,   \* document shown by self.text_browser
    last            \* the intent handled last and the answers the user gave

vars == <<word_data, data_file, progress_file, today, dark_mode, search_text,
          word_list, current, text_browser, last>>

-----------------------------------------------------------------------------
(* Bounds of the model *)

NumWords == 2       \* how many of WordPool's words the user types
MaxDay   == 2       \* days the clock runs through
MaxEvents == 2      \* events the progress log records before the model stops logging

-----------------------------------------------------------------------------
(* Input domains *)

WordPool == << <<"a", "n">>, <<"B", "a">>, <<" ", "c">>, <<"A">> >>

ValidWords == {WordPool[i] : i \in 1..NumWords}

BlankWords == {<< >>, <<" ">>}

InputWords == ValidWords \cup BlankWords

Explanations == {"", "x"}

Queries == {<< >>, <<"n">>, <<"B">>}

Days == 1..MaxDay

Actions == {"added", "viewed"}

-----------------------------------------------------------------------------
(* Strings *)

Ord(c) ==
    CASE c = " " -> 32
      [] c = "A" -> 65
      [] c = "B" -> 66
      [] c = "a" -> 97
      [] c = "b" -> 98
      [] c = "c" -> 99
      [] c = "n" -> 110

IsSpace(c) == c = " "

RECURSIVE lstrip(_)
lstrip(s) == IF s # << >> /\ IsSpace(Head(s)) THEN lstrip(Tail(s)) ELSE s

RECURSIVE rstrip(_)
rstrip(s) ==
    IF s # << >> /\ IsSpace(s[Len(s)]) THEN rstrip(SubSeq(s, 1, Len(s) - 1)) ELSE s

strip(s) == rstrip(lstrip(s))

lower_char(c) ==
    CASE c = "A" -> "a"
      [] c = "B" -> "b"
      [] OTHER   -> c

lower(s) == [i \in 1..Len(s) |-> lower_char(s[i])]

\* Python's `q in w` on strings
contains(q, w) ==
    \E i \in 0..(Len(w) - Len(q)) : SubSeq(w, i + 1, i + Len(q)) = q

\* Python's str `<`: code points, left to right; a proper prefix is smaller
RECURSIVE str_lt(_, _)
str_lt(a, b) ==
    IF b = << >> THEN FALSE
    ELSE IF a = << >> THEN TRUE
    ELSE IF Ord(Head(a)) # Ord(Head(b)) THEN Ord(Head(a)) < Ord(Head(b))
    ELSE str_lt(Tail(a), Tail(b))

RECURSIVE sorted(_)
sorted(S) ==
    IF S = {} THEN << >>
    ELSE LET m == CHOOSE x \in S : \A y \in S \ {x} : str_lt(x, y)
         IN  <<m>> \o sorted(S \ {m})

select_seq(s, q) == SelectSeq(s, LAMBDA w : contains(q, lower(w)))

-----------------------------------------------------------------------------
(* Storage *)

EmptyDoc == << >>

NoFile == [exists |-> FALSE, doc |-> EmptyDoc]

load_data(f) == IF f.exists THEN f.doc ELSE EmptyDoc

\* faulty variant: the write is skipped and the file keeps its old content
save_data_skip(data) == data_file

save_data(data) == [exists |-> TRUE, doc |-> data]

-----------------------------------------------------------------------------
(* Progress log *)

ZeroStats == [added |-> 0, viewed |-> 0]

bump(stats, action) == [stats EXCEPT ![action] = @ + 1]

\* faulty variant: both counters of the day are raised
log_progress_both(f, day, action) ==
    LET log == IF f.exists THEN f.doc ELSE EmptyDoc
        cur == IF day \in DOMAIN log THEN log[day] ELSE ZeroStats
    IN  [exists |-> TRUE,
         doc    |-> [d \in DOMAIN log \cup {day} |->
                        IF d = day THEN bump(bump(cur, "added"), "viewed") ELSE log[d]]]

\* faulty variant: the existing log is not loaded before writing
log_progress_fresh(f, day, action) ==
    [exists |-> TRUE, doc |-> [d \in {day} |-> bump(ZeroStats, action)]]

log_progress(f, day, action) ==
    LET log == IF f.exists THEN f.doc ELSE EmptyDoc
        cur == IF day \in DOMAIN log THEN log[day] ELSE ZeroStats
    IN  [exists |-> TRUE,
         doc    |-> [d \in DOMAIN log \cup {day} |->
                        IF d = day THEN bump(cur, action) ELSE log[d]]]

RECURSIVE sum_of(_, _, _)
sum_of(data, dates, action) ==
    IF dates = {} THEN 0
    ELSE LET d == CHOOSE x \in dates : TRUE
         IN  data[d][action] + sum_of(data, dates \ {d}, action)

\* total_added / total_viewed of ProgressDialog
total(data, action) == sum_of(data, DOMAIN data, action)

\* the log holds fewer events than the model's cap
can_log(f, day, action) ==
    IF f.exists THEN total(f.doc, "added") + total(f.doc, "viewed") < MaxEvents ELSE TRUE

-----------------------------------------------------------------------------
(* Renderer *)

markdown(md) == IF md = "" THEN "" ELSE "<p>" \o md \o "</p>"

convert_to_html(md, dark) ==
    [body       |-> markdown(md),
     background |-> IF dark THEN "#121212" ELSE "#fdfdfd",
     color      |-> IF dark THEN "#e0e0e0" ELSE "#222"]

BlankPage == [body |-> "", background |-> "", color |-> ""]

-----------------------------------------------------------------------------
(* Dictionary store *)

get(data, word) == IF word \in DOMAIN data THEN data[word] ELSE ""

\* faulty variant: an existing entry is not overwritten
put_keep(data, word, text) ==
    [k \in DOMAIN data \cup {word} |-> IF k \in DOMAIN data THEN data[k] ELSE text]

put(data, word, text) ==
    [k \in DOMAIN data \cup {word} |-> IF k = word THEN text ELSE data[k]]

\* faulty variant: the key is not removed
del_none(data, word) == data

del(data, word) == [k \in DOMAIN data \ {word} |-> data[k]]

refresh_word_list(data) == sorted(DOMAIN data)

filter_words(data, text) == select_seq(sorted(DOMAIN data), lower(text))

\* faulty variant: `not word` without strip()
rejected_empty_only(word, ok) == IF ok THEN word = << >> ELSE TRUE

\* `not ok or not word.strip()`
rejected(word, ok) == IF ok THEN strip(word) = << >> ELSE TRUE

-----------------------------------------------------------------------------
(* Initial state: DictionaryApp.__init__ and init_ui *)

NoWord == << >>

\* the intent handled, the word it was about, the text and the answers the user
\* gave; had/prior: whether the word was a key of the mapping when the handler
\* started, and with which explanation
EventOn(op, word, text, ok, accepted, data) ==
    [op |-> op, word |-> word, text |-> text, ok |-> ok, accepted |-> accepted,
     had |-> word \in DOMAIN data, prior |-> get(data, word)]

Event(op, word, text, ok, accepted) ==
    [op |-> op, word |-> word, text |-> text, ok |-> ok, accepted |-> accepted,
     had |-> FALSE, prior |-> ""]

\* no file yet, or the file an earlier run left
InitDataFiles == {NoFile, [exists |-> TRUE, doc |-> [w \in {WordPool[1]} |-> "x"]]}

InitProgressFiles ==
    {NoFile, [exists |-> TRUE, doc |-> [d \in {1} |-> [added |-> 1, viewed |-> 0]]]}

Init ==
    /\ data_file \in InitDataFiles
    /\ progress_file \in InitProgressFiles
    /\ today \in Days
    /\ word_data = load_data(data_file)
    /\ dark_mode = FALSE
    /\ search_text = << >>
    /\ word_list = refresh_word_list(word_data)
    /\ current = 0
    /\ text_browser = BlankPage
    /\ last = Event("init", NoWord, "", FALSE, FALSE)

-----------------------------------------------------------------------------
(* Intents *)

\* display_explanation(item), reading the mapping and the theme it is given
display_explanation(data, dark, word) ==
    /\ can_log(progress_file, today, "viewed")
    /\ text_browser' = convert_to_html(get(data, word), dark)
    /\ progress_file' = log_progress(progress_file, today, "viewed")

\* itemClicked: the clicked row becomes the current item and is displayed
item_clicked ==
    \E i \in 1..Len(word_list) :
        /\ current' = i
        /\ display_explanation(word_data, dark_mode, word_list[i])
        /\ last' = Event("item_clicked", word_list[i], "", TRUE, FALSE)
        /\ UNCHANGED <<word_data, data_file, today, dark_mode, search_text, word_list>>

\* a key pressed in the word list: Return displays the current item, the
\* arrow keys go to QListWidget and move the current row
handle_key_press ==
    \E key \in {"Return", "Down", "Up"} :
        IF key = "Return"
        THEN IF current # 0
             THEN /\ display_explanation(word_data, dark_mode, word_list[current])
                  /\ last' = Event("handle_key_press", word_list[current], "", TRUE, FALSE)
                  /\ UNCHANGED <<word_data, data_file, today, dark_mode, search_text,
                                 word_list, current>>
             ELSE /\ last' = Event("handle_key_press", NoWord, "", FALSE, FALSE)
                  /\ UNCHANGED <<word_data, data_file, progress_file, today, dark_mode,
                                 search_text, word_list, current, text_browser>>
        ELSE /\ Len(word_list) > 0
             /\ current' = IF key = "Down"
                           THEN (IF current < Len(word_list) THEN current + 1 ELSE current)
                           ELSE (IF current > 1 THEN current - 1 ELSE 1)
             /\ last' = Event("handle_key_press", NoWord, "", FALSE, FALSE)
             /\ UNCHANGED <<word_data, data_file, progress_file, today, dark_mode,
                            search_text, word_list, text_browser>>

\* textChanged of the search box
search ==
    \E text \in Queries \ {search_text} :
        /\ search_text' = text
        /\ word_list' = filter_words(word_data, text)
        /\ current' = 0
        /\ last' = Event("search", NoWord, "", TRUE, FALSE)
        /\ UNCHANGED <<word_data, data_file, progress_file, today, dark_mode, text_browser>>

add_word ==
    \E word \in InputWords, ok \in BOOLEAN :
        IF rejected(word, ok)
        THEN /\ last' = Event("add_word", IF ok THEN word ELSE NoWord, "", ok, FALSE)
             /\ UNCHANGED <<word_data, data_file, progress_file, today, dark_mode,
                            search_text, word_list, current, text_browser>>
        ELSE \E accept \in BOOLEAN :
        IF ~accept
        THEN /\ last' = Event("add_word", word, "", TRUE, FALSE)
             /\ UNCHANGED <<word_data, data_file, progress_file, today, dark_mode,
                            search_text, word_list, current, text_browser>>
        ELSE \E text \in Explanations :
             /\ can_log(progress_file, today, "added")
             /\ word_data' = put(word_data, word, text)
             /\ data_file' = save_data(word_data')
             /\ progress_file' = log_progress(progress_file, today, "added")
             /\ word_list' = refresh_word_list(word_data')
             /\ current' = 0
             /\ last' = EventOn("add_word", word, text, TRUE, TRUE, word_data)
             /\ UNCHANGED <<today, dark_mode, search_text, text_browser>>

edit_word ==
    IF current = 0
    THEN /\ last' = Event("edit_word", NoWord, "", FALSE, FALSE)
         /\ UNCHANGED <<word_data, data_file, progress_file, today, dark_mode,
                        search_text, word_list, current, text_browser>>
    ELSE LET word == word_list[current] IN
         \E accept \in BOOLEAN :
            IF accept
            THEN \E text \in Explanations :
                 /\ word_data' = put(word_data, word, text)
                 /\ data_file' = save_data(word_data')
                 /\ display_explanation(word_data', dark_mode, word)
                 /\ last' = EventOn("edit_word", word, text, TRUE, TRUE, word_data)
                 /\ UNCHANGED <<today, dark_mode, search_text, word_list, current>>
            ELSE /\ last' = Event("edit_word", word, "", TRUE, FALSE)
                 /\ UNCHANGED <<word_data, data_file, progress_file, today, dark_mode,
                                search_text, word_list, current, text_browser>>

\* faulty variant: the confirmed delete does not rebuild the word list
delete_word_no_refresh ==
    /\ current # 0
    /\ word_list[current] \in DOMAIN word_data
    /\ word_data' = del(word_data, word_list[current])
    /\ data_file' = save_data(word_data')
    /\ text_browser' = BlankPage
    /\ last' = EventOn("delete_word", word_list[current], "", TRUE, TRUE, word_data)
    /\ UNCHANGED <<progress_file, today, dark_mode, search_text, word_list, current>>

delete_word ==
    IF current = 0
    THEN /\ last' = Event("delete_word", NoWord, "", FALSE, FALSE)
         /\ UNCHANGED <<word_data, data_file, progress_file, today, dark_mode,
                        search_text, word_list, current, text_browser>>
    ELSE LET word == word_list[current] IN
         \E confirm \in BOOLEAN :
            IF confirm /\ word \notin DOMAIN word_data
            THEN \* `del self.word_data[word]` raises KeyError: the handler ends there
                 /\ last' = Event("KeyError", word, "", TRUE, TRUE)
                 /\ UNCHANGED <<word_data, data_file, progress_file, today, dark_mode,
                                search_text, word_list, current, text_browser>>
            ELSE IF confirm
            THEN /\ word_data' = del(word_data, word)
                 /\ data_file' = save_data(word_data')
                 /\ word_list' = refresh_word_list(word_data')
                 /\ current' = 0
                 /\ text_browser' = BlankPage
                 /\ last' = EventOn("delete_word", word, "", TRUE, TRUE, word_data)
                 /\ UNCHANGED <<progress_file, today, dark_mode, search_text>>
            ELSE /\ last' = Event("delete_word", word, "", TRUE, FALSE)
                 /\ UNCHANGED <<word_data, data_file, progress_file, today, dark_mode,
                                search_text, word_list, current, text_browser>>

toggle_dark_mode ==
    /\ dark_mode' = ~dark_mode
    /\ IF current # 0
       THEN /\ display_explanation(word_data, dark_mode', word_list[current])
            /\ last' = Event("toggle_dark_mode", word_list[current], "", TRUE, FALSE)
       ELSE /\ last' = Event("toggle_dark_mode", NoWord, "", FALSE, FALSE)
            /\ UNCHANGED <<progress_file, text_browser>>
    /\ UNCHANGED <<word_data, data_file, today, search_text, word_list, current>>

\* the dialog reads the log and shows its totals; nothing is written
show_progress ==
    /\ last' = Event("show_progress", NoWord, "", progress_file.exists, FALSE)
    /\ UNCHANGED <<word_data, data_file, progress_file, today, dark_mode, search_text,
                   word_list, current, text_browser>>

\* midnight passes: datetime.now() moves to the next day
next_day ==
    /\ today < MaxDay
    /\ today' = today + 1
    /\ last' = Event("next_day", NoWord, "", FALSE, FALSE)
    /\ UNCHANGED <<word_data, data_file, progress_file, dark_mode, search_text,
                   word_list, current, text_browser>>

Next ==
    \/ item_clicked
    \/ handle_key_press
    \/ search
    \/ add_word
    \/ edit_word
    \/ delete_word
    \/ toggle_dark_mode
    \/ show_progress
    \/ next_day

Spec == Init /\ [][Next]_vars

-----------------------------------------------------------------------------
(* Properties *)

Range(f) == {f[i] : i \in DOMAIN f}

Occurrences(seq, w) == Cardinality({i \in 1..Len(seq) : seq[i] = w})

load_progress(f) == IF f.exists THEN f.doc ELSE EmptyDoc

Mutating == {"add_word", "edit_word", "delete_word"}

Viewing == {"item_clicked", "handle_key_press"}

\* the step wrote one `action` event for today into the progress log and
\* nothing else
Recorded(action) ==
    LET old   == load_progress(progress_file)
        new   == load_progress(progress_file')
        cur   == IF today \in DOMAIN old THEN old[today] ELSE ZeroStats
        other == CHOOSE a \in Actions : a # action
    IN  /\ progress_file'.exists
        /\ DOMAIN new = DOMAIN old \cup {today}
        /\ new[today][action] = cur[action] + 1
        /\ new[today][other] = cur[other]
        /\ \A d \in DOMAIN old \ {today} : new[d] = old[d]
        /\ total(new, action) = total(old, action) + 1
        /\ total(new, other) = total(old, other)

\* C1: whenever the last intent handled is an add, an edit or a delete, the
\* word-data file read back equals the in-memory mapping; when the intent
\* changed the mapping the file exists and holds exactly the mapping.
C1_MemoryEqualsFile ==
    last.op \in Mutating =>
        /\ load_data(data_file) = word_data
        /\ last.accepted => data_file = [exists |-> TRUE, doc |-> word_data]

C1_Witness ==
    /\ last.op = "edit_word"
    /\ last.accepted
    /\ Cardinality(DOMAIN word_data) >= 2
    /\ data_file.doc[last.word] = last.text

\* C2: an accepted edit stores the new explanation in the mapping and in the
\* file and leaves the progress log as it was: no date gains or changes a
\* counter.
C2_EditRecordsNoProgress ==
    [][(last'.op = "edit_word" /\ last'.accepted) =>
            /\ get(word_data', last'.word) = last'.text
            /\ get(load_data(data_file'), last'.word) = last'.text
            /\ load_progress(progress_file') = load_progress(progress_file)]_vars

\* C3: an add whose word is empty or only whitespace changes neither the
\* mapping, nor the word-data file, nor the progress log (nor the list shown).
C3_BlankAddChangesNothing ==
    [][(last'.op = "add_word" /\ last'.ok /\ strip(last'.word) = << >>) =>
            UNCHANGED <<word_data, data_file, progress_file, word_list, current>>]_vars

C3_Witness ==
    /\ last.op = "add_word"
    /\ last.ok
    /\ last.word = <<" ">>
    /\ ~last.accepted
    /\ DOMAIN word_data # {}
    /\ progress_file.exists

\* C4: after an accepted add of w with explanation e, get(w) = e, w occurs
\* exactly once in the word list, which is the sorted list of all words, the
\* key set grew by at most w, and every other word keeps its explanation;
\* also when w was present before with another explanation.
C4_AddThenGet ==
    [][(last'.op = "add_word" /\ last'.accepted) =>
            LET w == last'.word IN
            /\ strip(w) # << >>
            /\ get(word_data', w) = last'.text
            /\ DOMAIN word_data' = DOMAIN word_data \cup {w}
            /\ word_list' = sorted(DOMAIN word_data')
            /\ Occurrences(word_list', w) = 1
            /\ \A k \in DOMAIN word_data \ {w} : word_data'[k] = word_data[k]]_vars

C4_Witness ==
    /\ last.op = "add_word"
    /\ last.accepted
    /\ last.had
    /\ last.prior # last.text
    /\ word_data[last.word] = last.text
    /\ Len(word_list) >= 2

\* C5: a key leaves the mapping only in a confirmed delete of that key; after
\* a confirmed delete of w, w is in neither the word list, the mapping nor the
\* file and get(w) is the empty string; a declined delete leaves the mapping
\* and the file as they were.
C5_DeleteOnlyWhenConfirmed ==
    [][/\ \A w \in DOMAIN word_data \ DOMAIN word_data' :
            last'.op = "delete_word" /\ last'.accepted /\ last'.word = w
       /\ (last'.op = "delete_word" /\ last'.accepted) =>
            LET w == last'.word IN
            /\ last'.had
            /\ w \notin DOMAIN word_data'
            /\ data_file'.exists
            /\ w \notin DOMAIN data_file'.doc
            /\ w \notin Range(word_list')
            /\ get(word_data', w) = ""
            /\ \A k \in DOMAIN word_data \ {w} : get(word_data', k) = word_data[k]
       /\ (last'.op = "delete_word" /\ ~last'.accepted) =>
            UNCHANGED <<word_data, data_file>>]_vars

C5_Witness ==
    /\ last.op = "delete_word"
    /\ last.accepted
    /\ last.had
    /\ last.prior = "x"
    /\ last.word \notin DOMAIN word_data
    /\ DOMAIN data_file.doc = DOMAIN word_data
    /\ DOMAIN word_data # {}

\* C6: an accepted add raises today's 'added' counter and the summary's total
\* added by exactly 1 and leaves every 'viewed' counter and every other date
\* alone; viewing a word does the same with 'viewed'; a date not in the log
\* counts from {added: 0, viewed: 0}.
C6_RecordCountsOne ==
    [][/\ (last'.op = "add_word" /\ last'.accepted) => Recorded("added")
       /\ (last'.op \in Viewing /\ last'.ok) => Recorded("viewed")]_vars

C6_Witness ==
    /\ last.op = "item_clicked"
    /\ progress_file.exists
    /\ today \in DOMAIN progress_file.doc
    /\ progress_file.doc[today] = [added |-> 1, viewed |-> 1]

\* C7: the progress log only grows: once written the file stays, no date
\* leaves it, and no counter of a date in it goes down, also when the day
\* changes.
C7_ProgressOnlyGrows ==
    [][/\ progress_file.exists => progress_file'.exists
       /\ \A d \in DOMAIN load_progress(progress_file) :
            /\ d \in DOMAIN load_progress(progress_file')
            /\ \A a \in Actions :
                 load_progress(progress_file')[d][a] >= load_progress(progress_file)[d][a]]_vars

C7_Witness ==
    /\ last.op \in Viewing
    /\ last.ok
    /\ today = 2
    /\ progress_file.exists
    /\ DOMAIN progress_file.doc = {1, 2}
    /\ progress_file.doc[2].viewed = 1

\* C8: every word shown in the list is a key of the mapping and the current
\* row is a row of the list; an accepted edit was of a word that was a key,
\* and no delete met a word missing from the mapping.
C8_ListedWordsAreKeys ==
    /\ Range(word_list) \subseteq DOMAIN word_data
    /\ current \in 0..Len(word_list)
    /\ (last.op = "edit_word" /\ last.accepted) => last.had
    /\ last.op # "KeyError"

C8_Witness ==
    /\ last.op = "edit_word"
    /\ last.accepted
    /\ last.had
    /\ current # 0
    /\ search_text # << >>
    /\ Len(word_list) < Cardinality(DOMAIN word_data)

\* C9: the list shown is always the filter of the current search text: the
\* words whose lowercase form contains the lowercased text, sorted.
C9_ListIsFilterOfSearch ==
    word_list = filter_words(word_data, search_text)

\* C10: toggling the theme flips the theme and leaves the mapping, the
\* word-data file and the progress log as they were.
C10_ToggleChangesThemeOnly ==
    [][last'.op = "toggle_dark_mode" =>
            /\ dark_mode' = ~dark_mode
            /\ UNCHANGED <<word_data, data_file, progress_file>>]_vars

=============================================================================
